---- MODULE Spec2Model ----
(***************************************************************************)
(* ClaimMaster: the research orchestration as seen from the React client.  *)
(* The client components (ResearchConfig, App, InfluencerProfile,          *)
(* InfluencerLeaderboard, ResearchProgress) are translated from their      *)
(* source.  The FastAPI backend is not part of the source tree: the        *)
(* research orchestrator and the discovery coordinator are modelled from   *)
(* sections 4.5, 4.6 and 6 of the specification.                            *)
(*                                                                         *)
(* Time is counted in days.  A JavaScript Date is a record: a valid date   *)
(* [k |-> "date", t |-> days], the Invalid Date (NaN time value) or null.  *)
(***************************************************************************)
EXTENDS Integers, Sequences, FiniteSets, TLC

\* ------------------------------------------------------------------ bounds
\* The value of Date.now() during the run, in days.
Now == 1000
\* Calls of loadInfluencerData during one life of the profile page.
MaxLoads == 2
\* Most candidates a discovery query resolves to.
MaxCandidates == 3

\* ------------------------------------------------------- program constants
\* (1000 * 60 * 60 * 24 * 30): the length of a "month" in validateDateRange.
MonthDays == 30
\* diffInMonths > 24 is rejected.
MaxMonths == 24
\* Date.now() - 180 * 24 * 60 * 60 * 1000: the default start date.
DefaultDays == 180
\* const maxAttempts = 30 in loadInfluencerData and in fetchInfluencers.
maxAttempts == 30

\* Influencer names the user types, one of them with a character that
\* encodeURIComponent escapes; and the subject keys the orchestrator may be
\* given: these names and the escaped form of the second.
Names == {"A", "A B"}
Subjects == {"A", "A B", "A%20B"}

\* encodeURIComponent(name) in navigate(`/profile/${...}`), and the decoding
\* useParams() applies to the matched :id segment.
encodeURIComponent(n) == IF n = "A B" THEN "A%20B" ELSE n
\* (NotDecoded: the segment read as it stands in the URL.)
NotDecoded(seg) == seg
useParams(seg) == IF seg = "A%20B" THEN "A B" ELSE seg

\* ------------------------------------------------------------------- dates
Date(t) == [k |-> "date", t |-> t]
NaD == [k |-> "invalid", t |-> 0]
NoDate == [k |-> "null", t |-> 0]

\* !d for a Date-or-null value: only null is falsy (an Invalid Date is an object).
Falsy(d) == d.k = "null"
\* a > b on Dates compares the time values; any comparison with NaN is false.
DateGT(a, b) == a.k = "date" /\ b.k = "date" /\ a.t > b.t
\* (end - start) / (1000*60*60*24*30) > 24; NaN > 24 is false.
DiffInMonthsGT(s, e, m) == s.k = "date" /\ e.k = "date" /\ (e.t - s.t) > m * MonthDays
\* new Date(x): a copy of a Date; new Date(null) is the epoch.
NewDate(x) == IF x.k = "null" THEN Date(0) ELSE x

\* ResearchConfig.validateDateRange
validateDateRange(start, end) ==
    IF Falsy(start) \/ Falsy(end) THEN FALSE
    ELSE LET startDate == NewDate(start)
             endDate == NewDate(end)
             now == Date(Now)
         IN  IF DateGT(startDate, endDate) THEN FALSE
             ELSE IF DateGT(endDate, now) THEN FALSE
             ELSE IF DiffInMonthsGT(startDate, endDate, MaxMonths) THEN FALSE
             ELSE TRUE

\* InfluencerProfile.validateDateRange
validateDateRangeP(start, end) ==
    IF Falsy(start) \/ Falsy(end) THEN FALSE
    ELSE IF DateGT(start, end) THEN FALSE
    ELSE IF DateGT(end, Date(Now)) THEN FALSE
    ELSE IF DiffInMonthsGT(start, end, MaxMonths) THEN FALSE
    ELSE TRUE

\* The range the specification allows: start <= end <= now, span <= 24 months.
RangeOK(s, e) ==
    /\ s.k = "date" /\ e.k = "date"
    /\ s.t <= e.t /\ e.t <= Now
    /\ e.t - s.t <= MaxMonths * MonthDays

\* ------------------------------------------------- research orchestrator
\* The stages of a ResearchJob, in their fixed order (specification 4.5).
STAGES == <<"queued", "gathering_content", "extracting_claims",
            "verifying_claims", "aggregating", "complete">>
Complete == Len(STAGES)
\* A job: its stage, whether it failed, the cache writes made for it, the
\* number of claims extracted for it and the claims of its snapshot.
NoJob == [stage |-> 0, failed |-> FALSE, cacheWrites |-> 0, extracted |-> 0, claims |-> <<>>]
NewJob == [NoJob EXCEPT !.stage = 1]

\* (specification 4.3, 7) A claim before its verification, and after it: a
\* verification that times out records the claim as questionable with no
\* citations.
VerifyingClaims == 4
PendingClaim == [status |-> "pending", citations |-> <<>>, timedOut |-> FALSE]
Verdicts == {"verified", "debunked", "VerificationTimeout"}
VerifiedClaim(outcome) ==
    IF outcome = "VerificationTimeout"
    THEN [status |-> "questionable", citations |-> <<>>, timedOut |-> TRUE]
    ELSE [status |-> outcome, citations |-> <<"citation">>, timedOut |-> FALSE]
Settled(j) == \A i \in 1..Len(j.claims) : j.claims[i].status # "pending"

\* The job after the verification of its claim i ends with the outcome: the
\* failure of one claim's verification stays with that claim.
AfterVerificationAborting(j, i, outcome) ==
    [j EXCEPT !.claims[i] = VerifiedClaim(outcome),
              !.failed = (outcome = "VerificationTimeout")]
AfterVerification(j, i, outcome) == [j EXCEPT !.claims[i] = VerifiedClaim(outcome)]

\* (specification 4.5) The cache writes made when a job enters the state j:
\* one at the complete transition of a job that did not fail.
CacheWriteAtEveryStage(j) == 1
CacheWriteAt(j) == IF j.stage = Complete /\ ~j.failed THEN 1 ELSE 0

\* The next transition of a job; n claims are extracted when it enters
\* verifying_claims.
Advanced(j, n) ==
    LET j1 == [j EXCEPT !.stage = @ + 1]
        j2 == IF j1.stage = VerifyingClaims
              THEN [j1 EXCEPT !.extracted = n, !.claims = [i \in 1..n |-> PendingClaim]]
              ELSE j1
    IN  [j2 EXCEPT !.cacheWrites = @ + CacheWriteAt(j2)]

\* errorDetail of a failed job: the last error met, by the stage it failed in.
ErrorDetail(j) ==
    CASE j.stage = 2 -> "NoContentFound"
      [] j.stage = 3 -> "ExtractionFailed"
      [] j.stage = 4 -> "UpstreamUnavailable"
      [] OTHER -> "Aborted"

\* progressLog: one entry per transition taken, in order.
\* An entry is {stage, timestamp}; the timestamp is the number of the
\* transition that wrote it.
ProgressLog(j) ==
    [i \in 1..j.stage |-> [stage |-> STAGES[i], timestamp |-> i]]
      \o (IF j.failed THEN <<[stage |-> "error", timestamp |-> j.stage + 1]>> ELSE <<>>)

InFlight(j) == j.stage \in 1..(Complete - 1) /\ ~j.failed
Cached(j) == j.stage = Complete /\ ~j.failed

\* A request body carries a subject ("none" when it has no influencer_name)
\* and a date range (NoDate when it has none).
RequestAccepted(req) ==
    /\ req.subject \in Subjects
    /\ (req.start = NoDate /\ req.end = NoDate) \/ RangeOK(req.start, req.end)

\* submit(subjectKey, params): the existing job if one is in flight or cached,
\* otherwise a new job in stage queued.
StartsPipeline(js, req) ==
    RequestAccepted(req) /\ ~InFlight(js[req.subject]) /\ ~Cached(js[req.subject])
SubmitJobs(js, req) ==
    IF StartsPipeline(js, req)
    THEN [js EXCEPT ![req.subject] = NewJob]
    ELSE js
SubmitPipelines(js, ps, req) ==
    IF StartsPipeline(js, req)
    THEN [ps EXCEPT ![req.subject] = @ + 1]
    ELSE ps
\* The body of a rejected submission.
SubmitDetail(req) ==
    IF req.subject \notin Subjects THEN "MissingSubject"
    ELSE IF ~RequestAccepted(req) THEN "InvalidDateRange"
    ELSE "null"

\* getStatus / getInfluencer: the snapshot of the subject's job.
StatusOf(s, j) ==
    [ status |-> IF j.failed THEN "failed" ELSE IF j.stage = 0 THEN "unknown" ELSE STAGES[j.stage],
      error  |-> IF j.failed THEN ErrorDetail(j) ELSE "null",
      logs   |-> ProgressLog(j),
      id     |-> IF Cached(j) THEN s ELSE "null" ]

\* --------------------------------------------------- discovery coordinator
\* (specification 4.6) A discovery resolves its query to `available`
\* candidates and submits one job for each of the first
\* min(requested, available); cand gives the state of each of these jobs.
\* of tells which start requested the discovery: "none", "earlier" for a
\* discovery of an earlier visit of the form, "this" for the one followed here.
NoDiscovery == [started |-> FALSE, requested |-> 0, available |-> 0, cand |-> <<>>, of |-> "none"]
Min(a, b) == IF a < b THEN a ELSE b
StartDiscovery(requested, available) ==
    [started |-> TRUE, requested |-> requested, available |-> available,
     cand |-> [i \in 1..Min(requested, available) |-> "running"], of |-> "this"]
\* A discovery of one candidate that an earlier start requested and that is complete.
EarlierDiscovery == [StartDiscovery(1, 1) EXCEPT !.cand = <<"complete">>, !.of = "earlier"]
Terminal(d) == {i \in DOMAIN d.cand : d.cand[i] \in {"complete", "failed"}}
Completed(d) == {i \in DOMAIN d.cand : d.cand[i] = "complete"}
Failed(d) == {i \in DOMAIN d.cand : d.cand[i] = "failed"}
\* complete once min(requested, available) jobs are terminal; failed candidates
\* are exclusions.
DiscoveryComplete(d) == d.started /\ Terminal(d) = DOMAIN d.cand
\* getDiscoveryStatus: the running list is part of every status of a
\* discovery; without a discovery the response has no list, stage or log.
DiscoveryStatus(d) ==
    [ status |-> IF ~d.started THEN "none"
                 ELSE IF DiscoveryComplete(d) THEN "complete" ELSE "in_progress",
      stage |-> IF ~d.started THEN "null"
                ELSE IF DiscoveryComplete(d) THEN "complete"
                ELSE IF Terminal(d) = {} THEN "searching" ELSE "analyzing",
      logs |-> [present |-> d.started,
                list |-> [i \in 1..Cardinality(Terminal(d)) |->
                            [stage |-> "analyzing", timestamp |-> i]]],
      influencers |-> [present |-> d.started, list |-> Completed(d)] ]

VARIABLES
    vdr,        \* a call of validateDateRange: its arguments and results
    rank,       \* InfluencerLeaderboard: the list, the filters, the sort key and the rows rendered
    view,       \* the claims of a rendered profile: the filters, the rows and the charts' data
    page,       \* the route shown: "config", "profile" or "leaderboard"
    form,       \* ResearchConfig: config, isLoading, error and the run of handleStartResearch
    app,        \* App: loading, error, and whether influencers was set
    jobs,       \* orchestrator: the ResearchJob of each subject
    pipelines,  \* orchestrator: pipelines started for each subject so far
    profile,    \* InfluencerProfile: the route parameter id and the component's state
    loops,      \* InfluencerProfile: the calls of loadInfluencerData, each with its closure
    nloads,     \* InfluencerProfile: calls of loadInfluencerData so far
    posts,      \* the POST /api/research requests sent so far
    disc,       \* discovery coordinator: the discovery started and its candidates' jobs
    board       \* InfluencerLeaderboard: the component's state and its poller

vars == <<vdr, rank, view, page, form, app, jobs, pipelines, profile, loops, nloads, posts, disc, board>>

\* ----------------------------------------------------- ResearchConfig, App
\* DatePicker values the user gives in the form.
FormPickDates == {Date(Now - 721), NaD, NoDate}

\* useState initial value of config (the fields the start of a research reads).
\* The value of a number field's change event: the text of an integer, or a
\* text that is no number; parseInt gives the integer, or NaN.
Text == [k |-> "text", v |-> 0]
Typed(n) == [k |-> "int", v |-> n]
NaN == [nan |-> TRUE, v |-> 0]
parseInt(x) == IF x.k = "int" THEN [nan |-> FALSE, v |-> x.v] ELSE NaN

ConfigInit ==
    [ mode |-> "specific", influencerName |-> "",
      startDate |-> Date(Now - DefaultDays), endDate |-> Date(Now),
      isDateRangeValid |-> TRUE,
      selectedCategories |-> <<>>, influencersCount |-> 10, productsCount |-> 10,
      verifyWithJournals |-> TRUE,
      selectedJournals |-> <<"PubMed Central", "Nature">>, claimsToAnalyze |-> 50 ]
\* pc is the place of the one run of handleStartResearch: "idle" before the
\* click, "post" awaiting POST /api/research, "app" awaiting onStartResearch,
\* "discover" awaiting POST /api/research/discover, "done" after the run
\* returned; cfg is the config the run closed over.
FormInit ==
    [ config |-> ConfigInit, isLoading |-> FALSE, error |-> "null",
      snackbar |-> [open |-> FALSE, message |-> ""],
      event |-> [target |-> "none", value |-> Text],
      pc |-> "idle", cfg |-> ConfigInit ]
FormUnmounted == [FormInit EXCEPT !.pc = "done"]
AppInit == [loading |-> FALSE, error |-> "null", influencers |-> "empty"]

\* disabled={...} of the Start Research button.
\* (StartDisabledSpecificOnly: the attribute without its discover clause.)
StartDisabledSpecificOnly(c) ==
    c.mode = "specific" /\ (c.influencerName = "" \/ ~c.isDateRangeValid)
StartDisabled(c) ==
    \/ c.mode = "specific" /\ (c.influencerName = "" \/ ~c.isDateRangeValid)
    \/ c.mode = "discover" /\ Len(c.selectedCategories) = 0

HEALTH_CATEGORIES ==
    <<"Nutrition", "Fitness", "Mental Health", "Alternative Medicine", "Weight Loss",
      "Supplements", "Holistic Health", "Medical Information", "Women's Health",
      "Men's Health", "Pediatric Health", "Senior Health", "Sports Medicine",
      "Chronic Disease Management">>

\* The health categories offered (two of HEALTH_CATEGORIES) and values
\* typed in the influencers count field.
Categories == {"Nutrition", "Fitness"}
CountInputs == {Typed(-5), Typed(0), Typed(2), Typed(51)}
\* n || d
OrDefault(n, d) == IF n.nan \/ n.v = 0 THEN d ELSE n.v
\* Math.max(1, Math.min(50, parseInt(e.target.value) || 10))
ClampCount(x) ==
    LET w == OrDefault(parseInt(x), 10)
        m == IF w > 50 THEN 50 ELSE w
    IN  IF m < 1 THEN 1 ELSE m
\* handleProductsCountChange: Math.min(Math.max(parseInt(value) || 0, 0), 10)
\* (ClampProductsNoCeiling: the same without Math.min(.., 10).)
ClampProductsNoCeiling(x) ==
    LET value == OrDefault(parseInt(x), 0)
    IN  IF value < 0 THEN 0 ELSE value
ClampProducts(x) ==
    LET value == OrDefault(parseInt(x), 0)
        m == IF value < 0 THEN 0 ELSE value
    IN  IF m > 10 THEN 10 ELSE m
\* onClick of a category chip.
ToggleCategoryList(cats, c) ==
    IF \E k \in 1..Len(cats) : cats[k] = c
    THEN SelectSeq(cats, LAMBDA x : x # c)
    ELSE Append(cats, c)

\* The fixed journal list, the chips toggled here, and the values typed in
\* the claims field after parseInt (0 for no number).
SCIENTIFIC_JOURNALS ==
    <<"PubMed Central", "Nature", "Science", "Cell", "The Lancet",
      "New England Journal of Medicine", "JAMA Network">>
JournalChips == {"Nature", "Science"}
ClaimsInputs == {0, 10}
\* onClick of a journal chip.
\* (ToggleJournalAppend: the chip always appends.)
ToggleJournalAppend(js, j) == Append(js, j)
ToggleJournalList(js, j) ==
    IF \E k \in 1..Len(js) : js[k] = j
    THEN SelectSeq(js, LAMBDA x : x # j)
    ELSE Append(js, j)
\* parseInt(e.target.value) || 50
ParseClaims(v) == IF v = 0 THEN 50 ELSE v

\* The bodies of the submissions of a start: a request carries a subject
\* ("none" without influencer_name), a date range (NoDate without one), the
\* selected journals and the claims count (0 without one).
FormRequest(c) ==
    [src |-> "form", subject |-> c.influencerName,
     start |-> NewDate(c.startDate), end |-> NewDate(c.endDate),
     journals |-> c.selectedJournals, claims |-> c.claimsToAnalyze, categories |-> <<>>]
AppRequest(c) ==
    [src |-> "app", subject |-> "none", start |-> NoDate, end |-> NoDate,
     journals |-> c.selectedJournals, claims |-> c.claimsToAnalyze, categories |-> c.selectedCategories]
DiscoverRequest(c) ==
    [src |-> "discover", subject |-> "none", start |-> NoDate, end |-> NoDate,
     journals |-> c.selectedJournals, claims |-> 0, categories |-> c.selectedCategories]

\* ---------------------------------------------------- InfluencerLeaderboard
\* useState initial values; mode is location.state.config.mode, attempts and
\* pc belong to the run of fetchInfluencers started by the effect.
BoardMounted(m) ==
    [ mode |-> m, influencers |-> {}, loading |-> TRUE, error |-> "null",
      researchStage |-> "searching", researchLogs |-> <<>>,
      attempts |-> 0, pc |-> "poll" ]
BoardUnmounted == [BoardMounted("null") EXCEPT !.loading = FALSE, !.pc = "idle"]

\* What the leaderboard renders: DiscoveryProgress while loading in discover
\* mode, otherwise a spinner, the error alert, or the table of influencers.
BoardShowsProgress(b) == b.loading /\ b.mode = "discover"
BoardShowsTable(b) == ~b.loading /\ b.error = "null"

\* catch (err) { setError(err.message); setLoading(false); return false }
\* (BoardCaughtClearsLogs: a catch block that also empties the log.)
BoardCaughtClearsLogs(b, msg) ==
    [b EXCEPT !.error = msg, !.loading = FALSE, !.pc = "done", !.researchLogs = <<>>]
BoardCaught(b, msg) == [b EXCEPT !.error = msg, !.loading = FALSE, !.pc = "done"]

\* if (attempts < maxAttempts) { attempts++; await sleep; return pollResearch() }
\* (BoardContinuesOffByOne, LoopContinuesOffByOne: the test with <= for <.)
BoardContinuesOffByOne(attempts) == attempts <= maxAttempts
BoardContinues(attempts) == attempts < maxAttempts
BoardSleep(b) == [b EXCEPT !.attempts = @ + 1]

\* One call of pollResearch on the response (ok, data) of GET /api/research/status.
pollResearch(b, ok, data) ==
    IF ~ok THEN BoardCaught(b, "Failed to fetch research status")
    ELSE LET b1 == IF data.logs.present THEN [b EXCEPT !.researchLogs = data.logs.list] ELSE b
             b2 == IF data.stage # "null" THEN [b1 EXCEPT !.researchStage = data.stage] ELSE b1
         IN  IF data.status = "complete" /\ data.influencers.present
             THEN [b2 EXCEPT !.influencers = data.influencers.list, !.loading = FALSE,
                             !.pc = "done"]
             ELSE IF BoardContinues(b2.attempts)
             THEN BoardSleep(b2)
             ELSE BoardCaught(b2, "Research timed out. Please try again.")

\* -------------------------------------------------------- InfluencerProfile
\* DatePicker values the user gives in the date range dialog.
PickDates == {Date(Now - 721), Date(Now + 1), NaD, NoDate}

\* useState initial values of the component, mounted on /profile/:id.
ProfileMounted(i) ==
    [ id |-> i, influencer |-> "null", loading |-> TRUE, error |-> "null",
      researchStage |-> "Searching for influencer", researchLogs |-> <<>>,
      startDate |-> Date(Now - DefaultDays), endDate |-> Date(Now),
      isDateRangeValid |-> TRUE, dateRangeDialog |-> FALSE ]

ProfileUnmounted == [ProfileMounted("null") EXCEPT !.loading = FALSE]

IdleLoop ==
    [ pc |-> "idle", id |-> "null", start |-> NoDate, end |-> NoDate,
      attempts |-> 0, outcome |-> "none", cause |-> "none" ]

\* if (loading || researchStage !== 'Ready') return <ResearchProgress .../>
Rendered(p) == ~p.loading /\ p.researchStage = "Ready"

\* ResearchProgress: activeStep, the error alert and the log list.
RESEARCH_STAGES == <<"Searching for influencer", "gathering_claims", "verifying_claims", "Ready">>
ActiveStep(currentStage) ==
    IF \E k \in 1..Len(RESEARCH_STAGES) : RESEARCH_STAGES[k] = currentStage
    THEN CHOOSE k \in 1..Len(RESEARCH_STAGES) : RESEARCH_STAGES[k] = currentStage
    ELSE 0
ShowsAlert(p) == ~Rendered(p) /\ p.error # "null"
ShowsSpinner(p) == ~Rendered(p) /\ p.researchStage # "Ready" /\ p.error = "null"

\* Date.prototype.toISOString throws on an Invalid Date; null has no such method.
ToISOThrows(d) == d.k # "date"
ToISOMessage(d) == IF d.k = "null" THEN "Cannot read properties of null" ELSE "Invalid time value"

\* catch (err) { setError(err.message); setSnackbar(..); setResearchStage('error') }
\* finally { setLoading(false) }
\* (CaughtClearsLogs: a catch block that also empties the log;
\* CaughtKeepsStage: one without setResearchStage('error').)
CaughtKeepsStage(p, msg) == [p EXCEPT !.error = msg, !.loading = FALSE]
CaughtClearsLogs(p, msg) ==
    [p EXCEPT !.error = msg, !.researchStage = "error", !.loading = FALSE, !.researchLogs = <<>>]
Caught(p, msg) ==
    [p EXCEPT !.error = msg, !.researchStage = "error", !.loading = FALSE]

\* The call returns: its locals are gone, how it ended is kept.
Ended(lp, outcome, cause) ==
    [lp EXCEPT !.pc = "done", !.attempts = 0, !.start = NoDate, !.end = NoDate,
               !.outcome = outcome, !.cause = cause]

\* while (attempts < maxAttempts)
LoopContinuesOffByOne(attempts) == attempts <= maxAttempts
LoopContinues(attempts) == attempts < maxAttempts

\* if (data.status === 'complete' && data.id)
IsComplete(data) == data.status = "complete" /\ data.id # "null"

\* The stage the page shows after a poll that neither completes nor fails.
\* (StageAfterReset: every such poll puts the first step back on display.)
StageAfterReset(stage, status) == "Searching for influencer"
StageAfter(stage, status) ==
    IF status = "gathering_claims" THEN "gathering_claims"
    ELSE IF status = "verifying_claims" THEN "verifying_claims"
    ELSE stage

\* One pass of the polling loop on the response (ok, data) of
\* GET /api/influencers/:id, up to the end of the 2 s sleep.
PollStep(p, lp, ok, data) ==
    IF ~ok
    THEN [p |-> Caught(p, "Failed to fetch influencer data"), lp |-> Ended(lp, "error", "http")]
    ELSE IF data.error # "null"
    THEN [p |-> Caught(p, data.error), lp |-> Ended(lp, "error", "backend_error")]
    ELSE LET p1 == [p EXCEPT !.researchLogs = data.logs]
             l1 == lp
         IN  IF IsComplete(data)
             THEN [p |-> [p1 EXCEPT !.researchStage = "Ready", !.influencer = data.id,
                                    !.loading = FALSE],
                   lp |-> Ended(l1, "Ready", "complete")]
             ELSE IF data.status = "error"
             THEN [p |-> Caught(p1, "Research failed"), lp |-> Ended(l1, "error", "status_error")]
             ELSE [p |-> [p1 EXCEPT !.researchStage = StageAfter(@, data.status)],
                   lp |-> [l1 EXCEPT !.attempts = @ + 1]]

\* The request body built by loadInfluencerData from its closure.
ProfileRequest(i, sd, ed) ==
    [src |-> "profile", subject |-> i, start |-> sd, end |-> ed,
     journals |-> <<"PubMed Central", "Nature", "Science">>, claims |-> 50, categories |-> <<>>]

\* loadInfluencerData up to its first await: the state updates, the request
\* body and the fetch of POST /api/research.
LoadStart(p) ==
    /\ nloads < MaxLoads
    /\ nloads' = nloads + 1
    /\ IF ToISOThrows(p.startDate) \/ ToISOThrows(p.endDate)
       THEN /\ profile' = Caught([p EXCEPT !.error = "null"],
                                 IF ToISOThrows(p.startDate) THEN ToISOMessage(p.startDate)
                                 ELSE ToISOMessage(p.endDate))
            /\ loops' = [loops EXCEPT ![nloads + 1] =
                            Ended([IdleLoop EXCEPT !.id = p.id, !.start = p.startDate,
                                                   !.end = p.endDate], "error", "exception")]
            /\ posts' = posts
       ELSE /\ profile' = [p EXCEPT !.loading = TRUE, !.error = "null"]
            /\ loops' = [loops EXCEPT ![nloads + 1] =
                            [IdleLoop EXCEPT !.pc = "post", !.id = p.id,
                                             !.start = p.startDate, !.end = p.endDate]]
            /\ posts' = posts \cup {ProfileRequest(p.id, p.startDate, p.endDate)}

\* useEffect(() => { loadInfluencerData() }, [id]): the route parameter changes.
RouteChange(i) ==
    /\ profile.id # "null" /\ i # profile.id
    /\ LoadStart([profile EXCEPT !.id = i])
    /\ UNCHANGED <<vdr, rank, view, disc, board, page, form, app, jobs, pipelines>>

\* The response of POST /api/research reaches the loop.
PostResponse(l, ok) ==
    /\ loops[l].pc = "post"
    /\ LET req == ProfileRequest(loops[l].id, loops[l].start, loops[l].end)
           accepted == ok /\ RequestAccepted(req)
       IN  /\ jobs' = IF ok THEN SubmitJobs(jobs, req) ELSE jobs
           /\ pipelines' = IF ok THEN SubmitPipelines(jobs, pipelines, req) ELSE pipelines
           /\ IF accepted
              THEN /\ profile' = [profile EXCEPT !.researchStage = "Searching for influencer"]
                   /\ loops' = [loops EXCEPT ![l].pc = "wait"]
              ELSE /\ profile' = Caught(profile,
                                    IF ok THEN SubmitDetail(req) ELSE "Failed to start research")
                   /\ loops' = [loops EXCEPT ![l] = Ended(@, "error", "post_failed")]
    /\ UNCHANGED <<vdr, rank, view, disc, board, page, form, app, nloads, posts>>

\* One status fetch of the loop and what the loop does with the response.
Poll(l, ok) ==
    /\ loops[l].pc = "wait" /\ LoopContinues(loops[l].attempts)
    /\ LET s == loops[l].id
           req == [src |-> "status", subject |-> s, start |-> NoDate, end |-> NoDate,
                   journals |-> <<>>, claims |-> 0, categories |-> <<>>]
           js == IF ok /\ jobs[s] = NoJob THEN SubmitJobs(jobs, req) ELSE jobs
           r == PollStep(profile, loops[l], ok, StatusOf(s, js[s]))
       IN  /\ jobs' = js
           /\ pipelines' = IF ok /\ jobs[s] = NoJob
                           THEN SubmitPipelines(jobs, pipelines, req) ELSE pipelines
           /\ profile' = r.p
           /\ loops' = [loops EXCEPT ![l] = r.lp]
    /\ UNCHANGED <<vdr, rank, view, disc, board, page, form, app, nloads, posts>>

\* The loop ends: throw new Error('Research timed out. Please try again.')
Timeout(l) ==
    /\ loops[l].pc = "wait" /\ ~LoopContinues(loops[l].attempts)
    /\ profile' = Caught(profile, "Research timed out. Please try again.")
    /\ loops' = [loops EXCEPT ![l] = Ended(@, "error", "timeout")]
    /\ UNCHANGED <<vdr, rank, view, disc, board, page, form, app, jobs, pipelines, nloads, posts>>

\* The date range dialog of the rendered profile.
OpenDateDialog ==
    /\ Rendered(profile) /\ ~profile.dateRangeDialog
    /\ profile' = [profile EXCEPT !.dateRangeDialog = TRUE]
    /\ UNCHANGED <<vdr, rank, view, disc, board, page, form, app, jobs, pipelines, loops, nloads, posts>>

CloseDateDialog ==
    /\ Rendered(profile) /\ profile.dateRangeDialog
    /\ profile' = [profile EXCEPT !.dateRangeDialog = FALSE]
    /\ UNCHANGED <<vdr, rank, view, disc, board, page, form, app, jobs, pipelines, loops, nloads, posts>>

\* handleDateRangeChange(newStart, newEnd)
handleDateRangeChange(p, newStart, newEnd) ==
    [p EXCEPT !.startDate = newStart, !.endDate = newEnd,
              !.isDateRangeValid = validateDateRangeP(newStart, newEnd)]

ChangeStartDate(d) ==
    /\ Rendered(profile) /\ profile.dateRangeDialog
    /\ profile' = handleDateRangeChange(profile, d, profile.endDate)
    /\ UNCHANGED <<vdr, rank, view, disc, board, page, form, app, jobs, pipelines, loops, nloads, posts>>

ChangeEndDate(d) ==
    /\ Rendered(profile) /\ profile.dateRangeDialog
    /\ profile' = handleDateRangeChange(profile, profile.startDate, d)
    /\ UNCHANGED <<vdr, rank, view, disc, board, page, form, app, jobs, pipelines, loops, nloads, posts>>

\* handleDateRangeSubmit, from the dialog's button (disabled={!isDateRangeValid}).
handleDateRangeSubmit ==
    /\ Rendered(profile) /\ profile.dateRangeDialog
    /\ profile.isDateRangeValid
    /\ LoadStart([profile EXCEPT !.dateRangeDialog = FALSE])
    /\ UNCHANGED <<vdr, rank, view, disc, board, page, form, app, jobs, pipelines>>

\* The orchestrator moves a job to its next stage, or to failed.
\* A stage ends only after every verification of its batch has ended
\* (specification 5).
JobAdvance(s, n) ==
    /\ InFlight(jobs[s]) /\ Settled(jobs[s])
    /\ jobs' = [jobs EXCEPT ![s] = Advanced(@, n)]
    /\ UNCHANGED <<vdr, rank, view, disc, board, page, form, app, pipelines, profile, loops, nloads, posts>>

JobFail(s) ==
    /\ InFlight(jobs[s])
    /\ jobs' = [jobs EXCEPT ![s].failed = TRUE]
    /\ UNCHANGED <<vdr, rank, view, disc, board, page, form, app, pipelines, profile, loops, nloads, posts>>

\* The verification of one claim of a job in verifying_claims ends.
VerifyClaim(s, i, outcome) ==
    /\ InFlight(jobs[s]) /\ jobs[s].stage = VerifyingClaims
    /\ i \in 1..Len(jobs[s].claims) /\ jobs[s].claims[i].status = "pending"
    /\ jobs' = [jobs EXCEPT ![s] = AfterVerification(@, i, outcome)]
    /\ UNCHANGED <<vdr, rank, view, disc, board, page, form, app, pipelines, profile, loops, nloads, posts>>

\* submitResearch(subjectName) with a valid request, from any client.
SubmitResearch(s) ==
    LET req == [src |-> "client", subject |-> s, start |-> NoDate, end |-> NoDate,
                journals |-> <<>>, claims |-> 0, categories |-> <<>>]
    IN  /\ StartsPipeline(jobs, req)
        /\ jobs' = SubmitJobs(jobs, req)
        /\ pipelines' = SubmitPipelines(jobs, pipelines, req)
        /\ UNCHANGED <<vdr, rank, view, disc, board, page, form, app, profile, loops, nloads, posts>>

\* --------------------------------------- ResearchConfig and App: the actions
\* onChange of the influencer name field.
SetInfluencerName(n) ==
    /\ page = "config" /\ form.config.mode = "specific"
    /\ n # form.config.influencerName
    /\ form' = [form EXCEPT !.config.influencerName = n]
    /\ UNCHANGED <<vdr, rank, view, disc, board, page, app, jobs, pipelines, profile, loops, nloads, posts>>

\* ResearchConfig.handleDateRangeChange(newStart, newEnd)
handleDateRangeChangeForm(c, newStart, newEnd) ==
    LET start == IF Falsy(newStart) THEN c.startDate ELSE newStart
        end == IF Falsy(newEnd) THEN c.endDate ELSE newEnd
    IN  [c EXCEPT !.startDate = start, !.endDate = end,
                  !.isDateRangeValid = validateDateRange(start, end)]

FormChangeStart(d) ==
    /\ page = "config" /\ form.config.mode = "specific"
    /\ form' = [form EXCEPT !.config = handleDateRangeChangeForm(@, d, NoDate)]
    /\ UNCHANGED <<vdr, rank, view, disc, board, page, app, jobs, pipelines, profile, loops, nloads, posts>>

FormChangeEnd(d) ==
    /\ page = "config" /\ form.config.mode = "specific"
    /\ form' = [form EXCEPT !.config = handleDateRangeChangeForm(@, NoDate, d)]
    /\ UNCHANGED <<vdr, rank, view, disc, board, page, app, jobs, pipelines, profile, loops, nloads, posts>>

\* The catch and finally blocks of ResearchConfig.handleStartResearch.
FormCaught(f, msg) ==
    [f EXCEPT !.error = msg, !.snackbar = [open |-> TRUE, message |-> msg],
              !.isLoading = FALSE, !.pc = "idle"]

\* if (!researchResponse.ok) throw ...: the request reached the server and
\* the server accepted it.
\* (ResponseOkIgnored: the handler without this test.)
ResponseOkIgnored(ok, req) == TRUE
ResponseOk(ok, req) == ok /\ RequestAccepted(req)

\* handleSnackbarClose
handleSnackbarClose ==
    /\ page = "config" /\ form.snackbar.open
    /\ form' = [form EXCEPT !.snackbar.open = FALSE]
    /\ UNCHANGED <<vdr, rank, view, disc, board, page, app, jobs, pipelines, profile, loops, nloads, posts>>

\* onClick of the mode cards, of a category chip, onChange of the count field.
SetMode(m) ==
    /\ page = "config" /\ m # form.config.mode
    /\ form' = [form EXCEPT !.config.mode = m]
    /\ UNCHANGED <<vdr, rank, view, disc, board, page, app, jobs, pipelines, profile, loops, nloads, posts>>

ToggleCategory(c) ==
    /\ page = "config" /\ form.config.mode = "discover"
    /\ form' = [form EXCEPT !.config.selectedCategories = ToggleCategoryList(@, c)]
    /\ UNCHANGED <<vdr, rank, view, disc, board, page, app, jobs, pipelines, profile, loops, nloads, posts>>

SetInfluencersCount(v) ==
    /\ page = "config" /\ form.config.mode = "discover"
    /\ form' = [form EXCEPT !.config.influencersCount = ClampCount(v),
                            !.event = [target |-> "influencersCount", value |-> v]]
    /\ UNCHANGED <<vdr, rank, view, disc, board, page, app, jobs, pipelines, profile, loops, nloads, posts>>

\* onChange of the products field.
handleProductsCountChange(x) ==
    /\ page = "config" /\ form.config.mode = "specific"
    /\ form' = [form EXCEPT !.config.productsCount = ClampProducts(x),
                            !.event = [target |-> "productsCount", value |-> x]]
    /\ UNCHANGED <<vdr, rank, view, disc, board, page, app, jobs, pipelines, profile, loops, nloads, posts>>

\* The verification switch, a journal chip (shown while the switch is on),
\* the claims field.
SetVerifyWithJournals(b) ==
    /\ page = "config" /\ b # form.config.verifyWithJournals
    /\ form' = [form EXCEPT !.config.verifyWithJournals = b]
    /\ UNCHANGED <<vdr, rank, view, disc, board, page, app, jobs, pipelines, profile, loops, nloads, posts>>

ToggleJournal(j) ==
    /\ page = "config" /\ form.config.verifyWithJournals
    /\ form' = [form EXCEPT !.config.selectedJournals = ToggleJournalList(@, j)]
    /\ UNCHANGED <<vdr, rank, view, disc, board, page, app, jobs, pipelines, profile, loops, nloads, posts>>

SetClaimsToAnalyze(v) ==
    /\ page = "config" /\ form.config.mode = "specific"
    /\ form' = [form EXCEPT !.config.claimsToAnalyze = ParseClaims(v)]
    /\ UNCHANGED <<vdr, rank, view, disc, board, page, app, jobs, pipelines, profile, loops, nloads, posts>>

\* Click on Start Research: handleStartResearch up to its first await. In
\* specific mode that is the fetch of POST /api/research; in discover mode it
\* is onStartResearch(config), App.handleStartResearch up to its fetch.
ClickStart ==
    /\ page = "config" /\ form.pc = "idle"
    /\ ~StartDisabled(form.config)
    /\ LET c == form.config
           f == [form EXCEPT !.isLoading = TRUE, !.error = "null", !.cfg = c]
           sd == NewDate(c.startDate)
           ed == NewDate(c.endDate)
       IN  IF c.mode = "specific"
           THEN /\ IF ToISOThrows(sd) \/ ToISOThrows(ed)
                   THEN /\ form' = FormCaught(f, "Invalid time value")
                        /\ posts' = posts
                   ELSE /\ form' = [f EXCEPT !.pc = "post"]
                        /\ posts' = posts \cup {FormRequest(c)}
                /\ app' = app
           ELSE IF Len(c.selectedCategories) = 0
           THEN /\ form' = FormCaught(f, "Please select at least one health category")
                /\ app' = app
                /\ posts' = posts
           ELSE /\ form' = [f EXCEPT !.pc = "app"]
                /\ app' = [app EXCEPT !.loading = TRUE, !.error = "null"]
                /\ posts' = posts \cup {AppRequest(c)}
    /\ UNCHANGED <<vdr, rank, view, disc, board, page, jobs, pipelines, profile, loops, nloads>>

\* The response of the form's POST: a rejection is thrown, otherwise
\* onStartResearch(config) runs App.handleStartResearch up to its fetch.
FormPostResponse(ok) ==
    /\ page = "config" /\ form.pc = "post"
    /\ LET req == FormRequest(form.cfg)
           accepted == ResponseOk(ok, req)
       IN  /\ jobs' = IF ok THEN SubmitJobs(jobs, req) ELSE jobs
           /\ pipelines' = IF ok THEN SubmitPipelines(jobs, pipelines, req) ELSE pipelines
           /\ IF accepted
              THEN /\ form' = [form EXCEPT !.pc = "app"]
                   /\ app' = [app EXCEPT !.loading = TRUE, !.error = "null"]
                   /\ posts' = posts \cup {AppRequest(form.cfg)}
              ELSE /\ form' = FormCaught(form,
                                 IF ok THEN SubmitDetail(req) ELSE "Failed to start research")
                   /\ app' = app
                   /\ posts' = posts
    /\ UNCHANGED <<vdr, rank, view, disc, board, page, profile, loops, nloads>>

\* The :id the profile page reads after navigate(`/profile/${encodeURIComponent(name)}`).
ProfileRouteId(name) == useParams(encodeURIComponent(name))

\* The response of App's POST: App never looks at response.ok and catches a
\* failed fetch, so onStartResearch returns either way. In specific mode the
\* form navigates to the profile (the form unmounts, the closed-over config
\* stays with the run), which mounts and runs loadInfluencerData. In discover
\* mode the form navigates to the leaderboard and fetches
\* POST /api/research/discover; the leaderboard mounts and its effect fetches
\* the first status.
AppPostResponse(ok) ==
    /\ page = "config" /\ form.pc = "app"
    /\ LET req == AppRequest(form.cfg)
       IN  /\ jobs' = IF ok THEN SubmitJobs(jobs, req) ELSE jobs
           /\ pipelines' = IF ok THEN SubmitPipelines(jobs, pipelines, req) ELSE pipelines
    /\ app' = IF ok THEN [app EXCEPT !.loading = FALSE, !.influencers = "undefined"]
              ELSE [app EXCEPT !.loading = FALSE, !.error = "Failed to fetch"]
    /\ IF form.cfg.mode = "specific"
       THEN /\ page' = "profile"
            /\ form' = [FormUnmounted EXCEPT !.cfg = form.cfg]
            /\ LoadStart(ProfileMounted(ProfileRouteId(form.cfg.influencerName)))
            /\ board' = board
       ELSE /\ page' = "leaderboard"
            /\ form' = [FormUnmounted EXCEPT !.cfg = form.cfg, !.pc = "discover"]
            /\ board' = BoardMounted(form.cfg.mode)
            /\ posts' = posts \cup {DiscoverRequest(form.cfg)}
            /\ UNCHANGED <<profile, loops, nloads>>
    /\ UNCHANGED <<vdr, rank, view, disc>>

\* The discover request reaches the coordinator, which resolves the
\* categories to some number of candidates and submits their jobs; the form
\* is unmounted, so what its run does with the response changes nothing shown.
DiscoverPostResponse(ok, available) ==
    /\ form.pc = "discover"
    /\ form' = [form EXCEPT !.pc = "done"]
    /\ disc' = IF ok /\ disc.of # "this"
               THEN StartDiscovery(form.cfg.influencersCount, available)
               ELSE disc
    /\ UNCHANGED <<vdr, rank, view, board, page, app, jobs, pipelines, profile, loops, nloads, posts>>

\* The job of a candidate reaches complete, or failed.
CandidateComplete(i) ==
    /\ disc.started /\ i \in DOMAIN disc.cand /\ disc.cand[i] = "running"
    /\ disc' = [disc EXCEPT !.cand[i] = "complete"]
    /\ UNCHANGED <<vdr, rank, view, board, page, form, app, jobs, pipelines, profile, loops, nloads, posts>>

CandidateFail(i) ==
    /\ disc.started /\ i \in DOMAIN disc.cand /\ disc.cand[i] = "running"
    /\ disc' = [disc EXCEPT !.cand[i] = "failed"]
    /\ UNCHANGED <<vdr, rank, view, board, page, form, app, jobs, pipelines, profile, loops, nloads, posts>>

\* One status fetch of the leaderboard's poller and what it does with the response.
BoardPoll(ok) ==
    /\ page = "leaderboard" /\ board.pc = "poll"
    /\ board' = pollResearch(board, ok, DiscoveryStatus(disc))
    /\ UNCHANGED <<vdr, rank, view, disc, page, form, app, jobs, pipelines, profile, loops, nloads, posts>>

\* The leaderboard table when the leaderboard is not shown.
IdleRank == [mounted |-> FALSE]

\* The claims view when no profile is rendered.
IdleView == [mounted |-> FALSE]

IdleVdr == [start |-> NoDate, end |-> NoDate, called |-> FALSE, form |-> FALSE, profile |-> FALSE]

\* The profile page is opened on /profile/:id; its effect runs loadInfluencerData.
InitProfile ==
    /\ vdr = IdleVdr
    /\ rank = IdleRank
    /\ view = IdleView
    /\ page = "profile" /\ form = FormUnmounted /\ app = AppInit
    /\ disc = NoDiscovery /\ board = BoardUnmounted
    /\ jobs = [s \in Subjects |-> NoJob]
    /\ pipelines = [s \in Subjects |-> 0]
    /\ \E i \in Names :
         /\ profile = ProfileMounted(i)
         /\ loops = [l \in 1..MaxLoads |->
                       IF l = 1 THEN [IdleLoop EXCEPT !.pc = "post", !.id = i,
                                         !.start = Date(Now - DefaultDays), !.end = Date(Now)]
                       ELSE IdleLoop]
         /\ posts = {ProfileRequest(i, Date(Now - DefaultDays), Date(Now))}
    /\ nloads = 1

NextProfile ==
    \/ \E l \in 1..MaxLoads, ok \in BOOLEAN : PostResponse(l, ok)
    \/ \E l \in 1..MaxLoads, ok \in BOOLEAN : Poll(l, ok)
    \/ \E l \in 1..MaxLoads : Timeout(l)
    \/ OpenDateDialog
    \/ CloseDateDialog
    \/ \E d \in PickDates : ChangeStartDate(d)
    \/ \E d \in PickDates : ChangeEndDate(d)
    \/ handleDateRangeSubmit
    \/ \E s \in Subjects : JobAdvance(s, 0)
    \/ \E s \in Subjects : JobFail(s)

\* The profile page on one route.
SpecProfile == InitProfile /\ [][NextProfile]_vars

\* The profile page whose route parameter changes while it is mounted.
InitRoute == InitProfile /\ profile.id = "A"

NextRoute ==
    \/ NextProfile
    \/ \E i \in Names : RouteChange(i)

SpecRoute == InitRoute /\ [][NextRoute]_vars

\* A research on one influencer started from the configuration form.
InitStart ==
    /\ vdr = IdleVdr
    /\ rank = IdleRank
    /\ view = IdleView
    /\ page = "config" /\ form = FormInit /\ app = AppInit
    /\ disc = NoDiscovery /\ board = BoardUnmounted
    /\ jobs = [s \in Subjects |-> NoJob]
    /\ pipelines = [s \in Subjects |-> 0]
    /\ profile = ProfileUnmounted
    /\ loops = [l \in 1..MaxLoads |-> IdleLoop]
    /\ posts = {}
    /\ nloads = 0

NextStart ==
    \/ \E n \in Names \cup {""} : SetInfluencerName(n)
    \/ \E d \in FormPickDates : FormChangeStart(d)
    \/ \E d \in FormPickDates : FormChangeEnd(d)
    \/ ClickStart
    \/ \E ok \in BOOLEAN : FormPostResponse(ok)
    \/ handleSnackbarClose
    \/ \E ok \in BOOLEAN : AppPostResponse(ok)
    \/ \E l \in 1..MaxLoads, ok \in BOOLEAN : PostResponse(l, ok)
    \/ \E l \in 1..MaxLoads, ok \in BOOLEAN : Poll(l, ok)
    \/ \E l \in 1..MaxLoads : Timeout(l)
    \/ \E s \in Subjects : JobAdvance(s, 0)
    \/ \E s \in Subjects : JobFail(s)

SpecStart == InitStart /\ [][NextStart]_vars

\* A discovery started from the configuration form and followed on the
\* leaderboard.
InitBoard == InitStart

NextBoard ==
    \/ \E m \in {"specific", "discover"} : SetMode(m)
    \/ \E c \in Categories : ToggleCategory(c)
    \/ \E v \in CountInputs : SetInfluencersCount(v)
    \/ ClickStart
    \/ \E ok \in BOOLEAN : AppPostResponse(ok)
    \/ \E ok \in BOOLEAN, n \in 0..MaxCandidates : DiscoverPostResponse(ok, n)
    \/ \E i \in 1..MaxCandidates : CandidateComplete(i)
    \/ \E i \in 1..MaxCandidates : CandidateFail(i)
    \/ \E ok \in BOOLEAN : BoardPoll(ok)

SpecBoard == InitBoard /\ [][NextBoard]_vars

\* The same with the scheduling the program relies on: every request gets a
\* response, and every candidate's job ends.
SpecBoardLive ==
    /\ SpecBoard
    /\ WF_vars(\E ok \in BOOLEAN, n \in 0..MaxCandidates : DiscoverPostResponse(ok, n))
    /\ WF_vars(\E i \in 1..MaxCandidates : CandidateComplete(i) \/ CandidateFail(i))
    /\ WF_vars(\E ok \in BOOLEAN : BoardPoll(ok))

\* The same flow when the server still has the complete discovery of an
\* earlier start.
InitAgain ==
    /\ vdr = IdleVdr
    /\ rank = IdleRank
    /\ view = IdleView
    /\ page = "config" /\ form = FormInit /\ app = AppInit
    /\ disc = EarlierDiscovery /\ board = BoardUnmounted
    /\ jobs = [s \in Subjects |-> NoJob]
    /\ pipelines = [s \in Subjects |-> 0]
    /\ profile = ProfileUnmounted
    /\ loops = [l \in 1..MaxLoads |-> IdleLoop]
    /\ posts = {}
    /\ nloads = 0

SpecAgain == InitAgain /\ [][NextBoard]_vars

\* The number fields of the form: any integer from -MaxTyped to MaxTyped, or
\* a text that is no number, typed in either field in any order.
MaxTyped == 55
TypedValues == {Typed(n) : n \in (0 - MaxTyped)..MaxTyped} \cup {Text}

InitFields == InitStart

NextFields ==
    \/ \E m \in {"specific", "discover"} : SetMode(m)
    \/ \E x \in TypedValues : SetInfluencersCount(x)
    \/ \E x \in TypedValues : handleProductsCountChange(x)

SpecFields == InitFields /\ [][NextFields]_vars

\* The configuration form: every option edited, and one start followed up to
\* the requests it sends (the form's POST is answered, so the form is left).
InitConfig == InitStart
NextConfig ==
    \/ \E n \in Names \cup {""} : SetInfluencerName(n)
    \/ \E m \in {"specific", "discover"} : SetMode(m)
    \/ \E c \in Categories : ToggleCategory(c)
    \/ \E b \in BOOLEAN : SetVerifyWithJournals(b)
    \/ \E j \in JournalChips : ToggleJournal(j)
    \/ \E v \in ClaimsInputs : SetClaimsToAnalyze(v)
    \/ ClickStart
    \/ FormPostResponse(TRUE)
    \/ \E ok \in BOOLEAN : AppPostResponse(ok)
    \/ \E ok \in BOOLEAN, n \in 0..MaxCandidates : DiscoverPostResponse(ok, n)
SpecConfig == InitConfig /\ [][NextConfig]_vars

\* The two pollers: a life of the profile page, or a discovery followed on
\* the leaderboard.
InitPollers == InitProfile \/ InitBoard
NextPollers == NextProfile \/ NextBoard
SpecPollers == InitPollers /\ [][NextPollers]_vars

\* ------------------------------------------- validateDateRange as a function
DateTimes == {0, Now - 721, Now - 720, Now - 719, Now - DefaultDays, Now - 1, Now, Now + 1}
DateInputs == {Date(t) : t \in DateTimes} \cup {NaD, NoDate}

InitDates ==
    /\ vdr \in [start : DateInputs, end : DateInputs, called : {FALSE}, form : {FALSE}, profile : {FALSE}]
    /\ rank = IdleRank
    /\ view = IdleView
    /\ page = "none" /\ form = FormUnmounted /\ app = AppInit
    /\ disc = NoDiscovery /\ board = BoardUnmounted
    /\ jobs = [s \in Subjects |-> NoJob]
    /\ pipelines = [s \in Subjects |-> 0]
    /\ profile = ProfileUnmounted
    /\ loops = [l \in 1..MaxLoads |-> IdleLoop]
    /\ nloads = 0
    /\ posts = {}

CallValidate ==
    /\ ~vdr.called
    /\ vdr' = [vdr EXCEPT !.called = TRUE,
                          !.form = validateDateRange(vdr.start, vdr.end),
                          !.profile = validateDateRangeP(vdr.start, vdr.end)]
    /\ UNCHANGED <<rank, view, page, form, app, jobs, pipelines, profile, loops, nloads, posts, disc, board>>

NextDates == CallValidate

SpecDates == InitDates /\ [][NextDates]_vars

\* --------------------------------------------------- the orchestrator alone
\* Jobs of two subjects, submitted again after a failure, with up to
\* MaxClaims claims extracted for each.
MaxClaims == 2

InitJob ==
    /\ vdr = IdleVdr
    /\ rank = IdleRank
    /\ view = IdleView
    /\ page = "none" /\ form = FormUnmounted /\ app = AppInit
    /\ disc = NoDiscovery /\ board = BoardUnmounted
    /\ jobs = [s \in Subjects |-> NoJob]
    /\ pipelines = [s \in Subjects |-> 0]
    /\ profile = ProfileUnmounted
    /\ loops = [l \in 1..MaxLoads |-> IdleLoop]
    /\ nloads = 0
    /\ posts = {}

NextJob ==
    \/ \E s \in Names : pipelines[s] < 2 /\ SubmitResearch(s)
    \/ \E s \in Subjects, n \in 0..MaxClaims : JobAdvance(s, n)
    \/ \E s \in Subjects, i \in 1..MaxClaims, o \in Verdicts : VerifyClaim(s, i, o)
    \/ \E s \in Subjects : JobFail(s)

SpecJob == InitJob /\ [][NextJob]_vars

\* ------------------------------------------- InfluencerLeaderboard: the table
\* Strings the filter looks into are sequences of characters.
ToLowerChar(c) == IF c = "A" THEN "a" ELSE IF c = "B" THEN "b" ELSE c

toLowerCase(s) == [i \in 1..Len(s) |-> ToLowerChar(s[i])]

\* String.prototype.includes: q occurs in s as a substring.
Includes(s, q) == \E k \in 0..(Len(s) - Len(q)) : SubSeq(s, k + 1, k + Len(q)) = q

\* Array.prototype.includes
ArrayIncludes(a, x) == \E i \in 1..Len(a) : a[i] = x

\* An optional field of an influencer: undefined, or its value.
Undefined == [present |-> FALSE, value |-> <<>>]

Given(v) == [present |-> TRUE, value |-> v]

\* The filter callback of filteredInfluencers.
MatchesSearch(inf, searchQuery) ==
    \/ Includes(toLowerCase(inf.name), toLowerCase(searchQuery))
    \/ Includes(toLowerCase(IF inf.bio.present THEN inf.bio.value ELSE <<>>), toLowerCase(searchQuery))

MatchesCategory(inf, selectedCategory) ==
    \/ selectedCategory = "null"
    \/ ArrayIncludes(IF inf.topics.present THEN inf.topics.value ELSE <<inf.category>>, selectedCategory)

VerifiedCount(inf) ==
    IF inf.claims.present
    THEN Len(SelectSeq(inf.claims.value, LAMBDA c : c = "verified"))
    ELSE 0

\* The comparator, as it is written, orders the larger key first.
CompareAscending(a, b, sortBy) ==
    CASE sortBy = "trustScore" -> a.trustScore - b.trustScore
      [] sortBy = "followers" -> a.followers - b.followers
      [] sortBy = "verifiedClaims" -> VerifiedCount(a) - VerifiedCount(b)
      [] OTHER -> 0

\* The comparator of filteredInfluencers: negative when a goes before b.
Compare(a, b, sortBy) ==
    CASE sortBy = "trustScore" -> b.trustScore - a.trustScore
      [] sortBy = "followers" -> b.followers - a.followers
      [] sortBy = "verifiedClaims" -> VerifiedCount(b) - VerifiedCount(a)
      [] OTHER -> 0

\* Array.prototype.sort is stable: an element goes after every element that
\* does not compare greater than it.
RECURSIVE InsertSorted(_, _, _)
InsertSorted(s, x, sortBy) ==
    IF s = <<>> THEN <<x>>
    ELSE IF Compare(s[Len(s)], x, sortBy) > 0
         THEN Append(InsertSorted(SubSeq(s, 1, Len(s) - 1), x, sortBy), s[Len(s)])
         ELSE Append(s, x)

RECURSIVE Sort(_, _)
Sort(s, sortBy) ==
    IF s = <<>> THEN <<>>
    ELSE InsertSorted(Sort(SubSeq(s, 1, Len(s) - 1), sortBy), s[Len(s)], sortBy)

filteredInfluencers(influencers, searchQuery, selectedCategory, sortBy) ==
    Sort(SelectSeq(influencers,
                   LAMBDA inf : MatchesSearch(inf, searchQuery) /\ MatchesCategory(inf, selectedCategory)),
         sortBy)

\* The table body: one row per element, its first cell index + 1.
\* The trend cell: trustScoreHistory?.length > 1 &&
\*   (trustScoreHistory[0].score > trustScoreHistory[1].score ? up : down)
Trend(inf) ==
    IF inf.trustScoreHistory.present /\ Len(inf.trustScoreHistory.value) > 1
    THEN IF inf.trustScoreHistory.value[1].score > inf.trustScoreHistory.value[2].score
         THEN "up" ELSE "down"
    ELSE "none"

TableRows(list) ==
    [i \in 1..Len(list) |-> [rank |-> i, influencer |-> list[i], trend |-> Trend(list[i])]]

\* Influencers the server can list.
MaxRows == 3

InfluencerPool ==
    { [name |-> <<"A">>, bio |-> Undefined, topics |-> Given(<<"Nutrition">>), category |-> "Fitness",
       trustScore |-> 50, followers |-> 10, trustScoreHistory |-> Undefined,
       claims |-> Given(<<"verified">>)],
      [name |-> <<"a", "b">>, bio |-> Given(<<"A">>), topics |-> Undefined, category |-> "Fitness",
       trustScore |-> 80, followers |-> 5, trustScoreHistory |-> Given(<<[date |-> 1, score |-> 80]>>),
       claims |-> Undefined],
      [name |-> <<"b">>, bio |-> Given(<<"a">>), topics |-> Undefined, category |-> "Nutrition",
       trustScore |-> 50, followers |-> 20, trustScoreHistory |-> Given(<<[date |-> 1, score |-> 40], [date |-> 2, score |-> 50]>>),
       claims |-> Given(<<"verified", "debunked", "verified">>)],
      [name |-> <<"B", "B">>, bio |-> Undefined, topics |-> Given(<<"Fitness", "Nutrition">>), category |-> "Fitness",
       trustScore |-> 20, followers |-> 30, trustScoreHistory |-> Given(<<>>),
       claims |-> Given(<<"questionable">>)] }

InfluencerLists == UNION {[1..n -> InfluencerPool] : n \in 0..MaxRows}

SearchQueries == {<<>>, <<"a">>, <<"B">>, <<"a", "b">>}

SortKeys == {"trustScore", "followers", "verifiedClaims"}

Render(r) ==
    [r EXCEPT !.rows = TableRows(filteredInfluencers(r.influencers, r.searchQuery,
                                                     r.selectedCategory, r.sortBy))]

InitRank ==
    /\ rank \in {Render([mounted |-> TRUE, influencers |-> l, searchQuery |-> <<>>,
                         selectedCategory |-> "null", sortBy |-> "trustScore", rows |-> <<>>]) :
                 l \in InfluencerLists}
    /\ vdr = IdleVdr /\ view = IdleView
    /\ page = "leaderboard" /\ form = FormUnmounted /\ app = AppInit
    /\ disc = NoDiscovery /\ board = BoardUnmounted
    /\ jobs = [s \in Subjects |-> NoJob]
    /\ pipelines = [s \in Subjects |-> 0]
    /\ profile = ProfileUnmounted
    /\ loops = [l \in 1..MaxLoads |-> IdleLoop]
    /\ nloads = 0
    /\ posts = {}

RankFrame == UNCHANGED <<vdr, view, page, form, app, jobs, pipelines, profile, loops, nloads, posts, disc, board>>

SetSearchQuery(q) ==
    /\ rank.mounted
    /\ rank' = Render([rank EXCEPT !.searchQuery = q])
    /\ RankFrame

SetSelectedCategory(c) ==
    /\ rank.mounted
    /\ rank' = Render([rank EXCEPT !.selectedCategory = c])
    /\ RankFrame

SetSortBy(k) ==
    /\ rank.mounted
    /\ rank' = Render([rank EXCEPT !.sortBy = k])
    /\ RankFrame

NextRank ==
    \/ \E q \in SearchQueries : SetSearchQuery(q)
    \/ \E c \in Categories \cup {"null"} : SetSelectedCategory(c)
    \/ \E k \in SortKeys : SetSortBy(k)

SpecRank == InitRank /\ [][NextRank]_vars

\* The table of one influencer, for every trust score history of up to
\* MaxHistory points (appended in date order) over three scores.
MaxHistory == 3

Histories ==
    UNION {[1..n -> {40, 50, 60}] : n \in 0..MaxHistory}

WithHistory(inf, h) ==
    [inf EXCEPT !.trustScoreHistory = Given([i \in 1..Len(h) |-> [date |-> i, score |-> h[i]]])]

InitTrend ==
    /\ rank \in {Render([mounted |-> TRUE, influencers |-> <<inf>>, searchQuery |-> <<>>,
                         selectedCategory |-> "null", sortBy |-> "trustScore", rows |-> <<>>]) :
                 inf \in {WithHistory(x, h) : x \in InfluencerPool, h \in Histories} \cup InfluencerPool}
    /\ vdr = IdleVdr /\ view = IdleView
    /\ page = "leaderboard" /\ form = FormUnmounted /\ app = AppInit
    /\ disc = NoDiscovery /\ board = BoardUnmounted
    /\ jobs = [s \in Subjects |-> NoJob]
    /\ pipelines = [s \in Subjects |-> 0]
    /\ profile = ProfileUnmounted
    /\ loops = [l \in 1..MaxLoads |-> IdleLoop]
    /\ nloads = 0
    /\ posts = {}

SpecTrend == InitTrend /\ [][NextRank]_vars

\* ------------------------------------------- the claims of a rendered profile
\* ClaimDistribution: claims.reduce((acc, claim) =>
\*   { acc[claim.status] = (acc[claim.status] || 0) + 1; return acc }, {})
\* An object is a function on the keys it has.
EmptyObject == [k \in {} |-> 0]

GetOr(obj, k, d) == IF k \in DOMAIN obj THEN obj[k] ELSE d

\* (CountOverwritten: the assignment without the former count.)
CountOverwritten(acc, k) == [x \in DOMAIN acc \cup {k} |-> IF x = k THEN 1 ELSE acc[x]]
CountOneMore(acc, k) ==
    [x \in DOMAIN acc \cup {k} |-> IF x = k THEN GetOr(acc, k, 0) + 1 ELSE acc[x]]

RECURSIVE distribution(_)
distribution(claims) ==
    IF claims = <<>> THEN EmptyObject
    ELSE CountOneMore(distribution(SubSeq(claims, 1, Len(claims) - 1)), claims[Len(claims)].status)

\* datasets[0].data of the doughnut chart
DistributionData(claims) ==
    LET d == distribution(claims)
    IN  <<GetOr(d, "verified", 0), GetOr(d, "questionable", 0), GetOr(d, "debunked", 0)>>

\* TopicAnalysis: the reduce over the claims, by claim.category.
NewTopic == [count |-> 0, totalTrustScore |-> 0, verified |-> 0, questionable |-> 0, debunked |-> 0]

TopicStep(acc, claim) ==
    LET t0 == GetOr(acc, claim.category, NewTopic)
        t1 == [t0 EXCEPT !.count = @ + 1, !.totalTrustScore = @ + claim.trustScore]
        t2 == [t1 EXCEPT ![claim.status] = @ + 1]
    IN  [x \in DOMAIN acc \cup {claim.category} |-> IF x = claim.category THEN t2 ELSE acc[x]]

RECURSIVE topicStats(_)
topicStats(claims) ==
    IF claims = <<>> THEN EmptyObject
    ELSE TopicStep(topicStats(SubSeq(claims, 1, Len(claims) - 1)), claims[Len(claims)])

\* InfluencerProfile.filteredClaims: the callback of the filter.
\* (MatchesAnyFilter: the callback with || between the status and category tests.)
MatchesAnyFilter(claim, searchQuery, claimFilter, selectedCategory) ==
    /\ Includes(toLowerCase(claim.text), toLowerCase(searchQuery))
    /\ \/ claimFilter = "all" \/ claim.status = claimFilter
       \/ selectedCategory = "all" \/ claim.category = selectedCategory
MatchesAllFilters(claim, searchQuery, claimFilter, selectedCategory) ==
    /\ Includes(toLowerCase(claim.text), toLowerCase(searchQuery))
    /\ claimFilter = "all" \/ claim.status = claimFilter
    /\ selectedCategory = "all" \/ claim.category = selectedCategory

\* influencer?.claims?.filter(...) || []
filteredClaims(claims, searchQuery, claimFilter, selectedCategory) ==
    IF claims.present
    THEN SelectSeq(claims.value,
                   LAMBDA c : MatchesAllFilters(c, searchQuery, claimFilter, selectedCategory))
    ELSE <<>>

\* Claims a snapshot can have: every status, two categories, three texts.
ClaimPool ==
    { [text |-> <<"A">>, status |-> "verified", category |-> "Nutrition", trustScore |-> 90],
      [text |-> <<"a", "b">>, status |-> "verified", category |-> "Fitness", trustScore |-> 70],
      [text |-> <<"b">>, status |-> "questionable", category |-> "Nutrition", trustScore |-> 50],
      [text |-> <<"A", "B">>, status |-> "questionable", category |-> "Fitness", trustScore |-> 40],
      [text |-> <<"a">>, status |-> "debunked", category |-> "Nutrition", trustScore |-> 10],
      [text |-> <<"B">>, status |-> "debunked", category |-> "Fitness", trustScore |-> 0] }

ClaimLists == UNION {[1..n -> ClaimPool] : n \in 0..MaxRows}

\* The view rendered: the rows of the claims table and the data of the charts.
RenderView(v) ==
    [v EXCEPT !.rows = filteredClaims(v.claims, v.searchQuery, v.claimFilter, v.selectedCategory),
              !.distributionData = IF v.claims.present THEN DistributionData(v.claims.value)
                                   ELSE <<0, 0, 0>>,
              !.topicStats = IF v.claims.present THEN topicStats(v.claims.value) ELSE EmptyObject]

InitView ==
    /\ view \in {RenderView([mounted |-> TRUE, claims |-> c, searchQuery |-> <<>>,
                             claimFilter |-> "all", selectedCategory |-> "all", rows |-> <<>>,
                             distributionData |-> <<0, 0, 0>>, topicStats |-> EmptyObject]) :
                 c \in {Given(l) : l \in ClaimLists} \cup {Undefined}}
    /\ vdr = IdleVdr /\ rank = IdleRank
    /\ page = "profile" /\ form = FormUnmounted /\ app = AppInit
    /\ disc = NoDiscovery /\ board = BoardUnmounted
    /\ jobs = [s \in Subjects |-> NoJob]
    /\ pipelines = [s \in Subjects |-> 0]
    /\ profile = ProfileUnmounted
    /\ loops = [l \in 1..MaxLoads |-> IdleLoop]
    /\ nloads = 0
    /\ posts = {}

ViewFrame == UNCHANGED <<vdr, rank, page, form, app, jobs, pipelines, profile, loops, nloads, posts, disc, board>>

SetClaimSearch(q) ==
    /\ view.mounted
    /\ view' = RenderView([view EXCEPT !.searchQuery = q])
    /\ ViewFrame

SetClaimFilter(f) ==
    /\ view.mounted
    /\ view' = RenderView([view EXCEPT !.claimFilter = f])
    /\ ViewFrame

SetClaimCategory(c) ==
    /\ view.mounted
    /\ view' = RenderView([view EXCEPT !.selectedCategory = c])
    /\ ViewFrame

NextView ==
    \/ \E q \in SearchQueries : SetClaimSearch(q)
    \/ \E f \in {"all", "verified", "questionable", "debunked"} : SetClaimFilter(f)
    \/ \E c \in Categories \cup {"all"} : SetClaimCategory(c)

SpecView == InitView /\ [][NextView]_vars

\* ================================================================== claims
Loads == 1..MaxLoads

\* Steps of the loop of load l: a poll after which it goes on, and its end.
ContinuingPoll(l) ==
    /\ loops[l].pc = "wait" /\ loops'[l].pc = "wait"
    /\ loops'[l].attempts = loops[l].attempts + 1
EndsBy(l, cause) ==
    loops[l].pc # "done" /\ loops'[l].pc = "done" /\ loops'[l].cause = cause
Ends(l) == loops[l].pc # "done" /\ loops'[l].pc = "done"
\* The loop of load l received a status response in this step.
GotStatus(l) ==
    \/ ContinuingPoll(l)
    \/ loops[l].pc = "wait" /\ Ends(l) /\ loops'[l].cause \notin {"http", "timeout"}

Observed(p) == Len(p.researchLogs)
\* The first run of the page, polling the job its own POST created.
FirstRun(l) == l = 1 /\ loops[l].pc = "wait" /\ ~jobs[loops[l].id].failed

\* C2 as claimed: the first poll of a run observes queued, every later poll
\* the stage that follows the one observed before it, and the run ends on
\* complete right after aggregating: no stage skipped, none repeated.
C2_ExactStageSequence ==
    [][\A l \in Loads :
          FirstRun(l) =>
            /\ ContinuingPoll(l) =>
                 Observed(profile') = IF loops[l].attempts = 0 THEN 1
                                      ELSE Observed(profile) + 1
            /\ EndsBy(l, "complete") => Observed(profile) = Complete - 1]_vars

\* C2 amended: the statuses the polls of the first run observe never go
\* backwards in the order of STAGES (a stage may be observed several times or
\* not at all); the run ends with 'Ready' only on a poll that observes
\* complete; of the stages before complete only verifying_claims changes the
\* displayed researchStage.
C2_StagesInOrder ==
    [][\A l \in Loads :
          FirstRun(l) =>
            /\ ContinuingPoll(l) =>
                 /\ Observed(profile') >= Observed(profile)
                 /\ Observed(profile') = jobs'[loops[l].id].stage
                 /\ Observed(profile') < Complete
                 /\ profile'.researchStage =
                      IF STAGES[Observed(profile')] = "verifying_claims"
                      THEN "verifying_claims" ELSE profile.researchStage
            /\ EndsBy(l, "complete") =>
                 /\ Observed(profile') = Complete
                 /\ jobs'[loops[l].id].stage = Complete
                 /\ profile'.researchStage = "Ready"]_vars

\* A run went through polls that saw the job underway and ended with the
\* complete log on display.
C2_Witness ==
    \E l \in Loads :
        /\ loops[l].cause = "complete" /\ Rendered(profile)
        /\ profile.researchLogs = ProgressLog([NoJob EXCEPT !.stage = Complete])

\* C3 as claimed: the profile is rendered only if the current load received
\* a complete status with the result, and every status response that reports
\* complete ends the loop that receives it and renders the profile.
C3_ResultOnlyWhenComplete ==
    /\ [](Rendered(profile) => loops[nloads].outcome = "Ready")
    /\ [][\A l \in Loads :
            (GotStatus(l) /\ Cached(jobs[loops[l].id])) =>
               EndsBy(l, "complete") /\ Rendered(profile')]_vars

\* C4: a poll that finds the job failed ends the loop, puts the job's
\* errorDetail in the error alert of the progress view and leaves the log
\* entries on display as they were.
C4_FailedJobShown ==
    [][\A l \in Loads :
          (GotStatus(l) /\ jobs[loops[l].id].failed) =>
            /\ Ends(l)
            /\ profile'.error = ErrorDetail(jobs[loops[l].id])
            /\ ShowsAlert(profile')
            /\ profile'.researchLogs = profile.researchLogs]_vars

\* A job failed in extracting_claims after a poll had shown its log.
C4_Witness ==
    \E l \in Loads :
        /\ loops[l].cause = "backend_error"
        /\ profile.error = "ExtractionFailed"
        /\ ShowsAlert(profile)
        /\ Len(profile.researchLogs) > 0

\* C5 as claimed: when a poll finds the job failed, the stage on display stays
\* the stage shown before, and it is a step of RESEARCH_STAGES.
C5_FailedStageKept ==
    [][\A l \in Loads :
          (GotStatus(l) /\ jobs[loops[l].id].failed) =>
            /\ profile'.researchStage = profile.researchStage
            /\ ActiveStep(profile'.researchStage) > 0]_vars

\* C6 as claimed: every POST /api/research sent carries a date range that
\* satisfies start <= end <= now and spans at most 24 months.
C6_NoInvalidRangePosted ==
    \A r \in posts : r.start # NoDate => RangeOK(r.start, r.end)

\* C7 as claimed: validateDateRange returns true exactly when both dates are
\* present, start <= end <= now and the span is at most 24 * 30 days, in the
\* form and in the profile page alike.
C7_ValidExactlyWhenInRange ==
    vdr.called =>
        /\ vdr.form = RangeOK(vdr.start, vdr.end)
        /\ vdr.profile = RangeOK(vdr.start, vdr.end)

\* C8: a run fetches the status only while attempts < maxAttempts, so at most
\* maxAttempts times; it ends with 'Ready' shown or with an error shown, and
\* it ends by the timeout only after maxAttempts fetches.
C8_PollerGivesUp ==
    /\ [](\A l \in Loads : loops[l].attempts <= maxAttempts)
    /\ [][\A l \in Loads :
            /\ GotStatus(l) => loops[l].attempts < maxAttempts
            /\ ContinuingPoll(l) => loops'[l].attempts <= maxAttempts
            /\ Ends(l) =>
                 \/ loops'[l].outcome = "Ready" /\ profile'.researchStage = "Ready"
                 \/ /\ loops'[l].outcome = "error" /\ profile'.researchStage = "error"
                    /\ profile'.error # "null"
            /\ EndsBy(l, "timeout") =>
                 /\ loops[l].attempts = maxAttempts
                 /\ profile'.error = "Research timed out. Please try again."]_vars

\* A run gave up after maxAttempts fetches.
C8_Witness ==
    \E l \in Loads :
        /\ loops[l].cause = "timeout"
        /\ profile.error = "Research timed out. Please try again."

\* The leaderboard's poller received a status and goes on polling.
BoardContinuingPoll ==
    /\ board.pc = "poll" /\ board'.pc = "poll"
    /\ board'.attempts = board.attempts + 1

\* C9 as claimed: when a status response of a discovery still in progress
\* carries a list with influencers in it, the leaderboard takes the list and
\* shows it in its table.
C9_RunningListShown ==
    [][(BoardContinuingPoll /\ DiscoveryStatus(disc).influencers.list # {}) =>
          /\ board'.influencers = DiscoveryStatus(disc).influencers.list
          /\ BoardShowsTable(board')]_vars

\* C10: the status of a discovery reports complete only with every candidate's
\* job terminal, and then with exactly the candidates that did not fail; a
\* started discovery gets there whichever candidates fail; the leaderboard's
\* poller never counts past maxAttempts and, once mounted, ends.
C10_DiscoveryCompletes ==
    /\ [](DiscoveryStatus(disc).status = "complete" =>
            /\ Terminal(disc) = DOMAIN disc.cand
            /\ DiscoveryStatus(disc).influencers.list = DOMAIN disc.cand \ Failed(disc)
            /\ Cardinality(DiscoveryStatus(disc).influencers.list)
                 = Min(disc.requested, disc.available) - Cardinality(Failed(disc)))
    /\ [](board.attempts <= maxAttempts)
    /\ (disc.started ~> (DiscoveryStatus(disc).status = "complete"))
    /\ ((page = "leaderboard") ~> (board.pc = "done"))

\* A discovery of three candidates of which one failed is complete and the
\* leaderboard shows the two others.
C10_Witness ==
    /\ Cardinality(DOMAIN disc.cand) = 3 /\ Cardinality(Failed(disc)) = 1
    /\ DiscoveryStatus(disc).status = "complete"
    /\ board.pc = "done" /\ BoardShowsTable(board)
    /\ board.influencers = Completed(disc) /\ Cardinality(board.influencers) = 2

\* A list extends another; a list is in timestamp order.
Extends(new, old) ==
    Len(new) >= Len(old) /\ \A i \in 1..Len(old) : new[i] = old[i]
InTimeOrder(list) ==
    \A i, j \in 1..Len(list) : i <= j => list[i].timestamp <= list[j].timestamp

\* C11: on the profile page and on the leaderboard, every step leaves on
\* display a log list that extends the one displayed before it, entry for
\* entry, and the list displayed is in timestamp order.
C11_LogsAppendOnly ==
    /\ [](InTimeOrder(profile.researchLogs) /\ InTimeOrder(board.researchLogs))
    /\ [][/\ Extends(profile'.researchLogs, profile.researchLogs)
          /\ Extends(board'.researchLogs, board.researchLogs)]_vars

\* The leaderboard has polled more than once and its log has grown to two
\* entries; the poller goes on.
C11_Witness ==
    /\ page = "leaderboard" /\ board.pc = "poll" /\ board.attempts >= 2
    /\ Len(board.researchLogs) = 2

\* A list holds only journals of SCIENTIFIC_JOURNALS, each at most once.
JournalSubset(js) ==
    /\ \A k \in 1..Len(js) : \E n \in 1..Len(SCIENTIFIC_JOURNALS) : SCIENTIFIC_JOURNALS[n] = js[k]
    /\ \A k, n \in 1..Len(js) : js[k] = js[n] => k = n

\* C12: selectedJournals, and the journal list of every request sent by the
\* form, by App and by the profile page, holds only journals of the fixed
\* list and none twice.
C12_JournalsSubset ==
    /\ JournalSubset(form.config.selectedJournals)
    /\ \A r \in posts : JournalSubset(r.journals)

\* A start was sent with a journal taken out and put back (so last in the
\* list) and one added, and the profile page has sent its own request.
C12_Witness ==
    /\ \E r \in posts : r.src = "form" /\ r.journals = <<"PubMed Central", "Science", "Nature">>
    /\ \E r \in posts : r.src = "profile"

\* Occurrences of x in the list.
Count(x, list) == Cardinality({i \in 1..Len(list) : list[i] = x})

\* C13: with the default sort key, whatever the search text and the category
\* chosen, the table's rows are exactly the influencers of the list that pass
\* the filter, each as often as the list has it, ordered by trustScore
\* descending and ranked 1..n.
C13_RowsFilteredAndRanked ==
    (rank.mounted /\ rank.sortBy = "trustScore") =>
        /\ \A x \in InfluencerPool :
               Count(x, [i \in 1..Len(rank.rows) |-> rank.rows[i].influencer]) =
                   IF MatchesSearch(x, rank.searchQuery) /\ MatchesCategory(x, rank.selectedCategory)
                   THEN Count(x, rank.influencers) ELSE 0
        /\ \A i, j \in 1..Len(rank.rows) :
               i < j => rank.rows[i].influencer.trustScore >= rank.rows[j].influencer.trustScore
        /\ \A i \in 1..Len(rank.rows) : rank.rows[i].rank = i

C13_Witness ==
    /\ rank.mounted /\ rank.sortBy = "trustScore"
    /\ rank.searchQuery = <<"a">> /\ rank.selectedCategory = "Fitness"
    /\ Len(rank.influencers) = 3 /\ Len(rank.rows) = 2
    /\ rank.influencers[1].trustScore < rank.influencers[3].trustScore
    /\ rank.rows[1].influencer = rank.influencers[3]

\* C14: the cache entry of a job is written exactly once, at its transition
\* to complete, and only if the job did not fail: a completed job has one
\* write, a failed job and a job in a stage before complete have none, and a
\* step writes only when it takes a job to complete.
C14_CacheWrittenOnceAtComplete ==
    /\ [](\A s \in Subjects : jobs[s].cacheWrites = IF Cached(jobs[s]) THEN 1 ELSE 0)
    /\ [][\A s \in Subjects :
            jobs'[s].cacheWrites > jobs[s].cacheWrites =>
                /\ jobs'[s].cacheWrites = jobs[s].cacheWrites + 1
                /\ jobs[s].stage = Complete - 1 /\ ~jobs[s].failed
                /\ jobs'[s].stage = Complete /\ ~jobs'[s].failed]_vars

C14_Witness ==
    /\ Cached(jobs["A"]) /\ jobs["A"].cacheWrites = 1 /\ pipelines["A"] = 2
    /\ jobs["A B"].failed /\ jobs["A B"].stage = Complete - 1 /\ jobs["A B"].cacheWrites = 0

\* C15: the failure of one claim's verification stays with that claim: the
\* step that records it changes no other claim, does not fail the job and
\* leaves its stage, and a job that completes has all the claims extracted
\* for it, each with a verdict, the timed-out ones questionable with no
\* citations.
C15_TimeoutIsolatedPerClaim ==
    /\ [](\A s \in Subjects :
            /\ Len(jobs[s].claims) = jobs[s].extracted
            /\ \A i \in 1..Len(jobs[s].claims) :
                   jobs[s].claims[i].timedOut =>
                       jobs[s].claims[i].status = "questionable" /\ jobs[s].claims[i].citations = <<>>
            /\ Cached(jobs[s]) =>
                   \A i \in 1..Len(jobs[s].claims) :
                       jobs[s].claims[i].status \in {"verified", "questionable", "debunked"})
    /\ [][\A s \in Subjects :
            (jobs[s].stage = VerifyingClaims /\ jobs'[s].stage = VerifyingClaims
             /\ jobs'[s].claims # jobs[s].claims) =>
                /\ jobs'[s].failed = jobs[s].failed
                /\ \E i \in 1..Len(jobs[s].claims) :
                       /\ jobs[s].claims[i] = PendingClaim
                       /\ \A k \in 1..Len(jobs[s].claims) :
                              k # i => jobs'[s].claims[k] = jobs[s].claims[k]]_vars

C15_Witness ==
    /\ Cached(jobs["A"]) /\ jobs["A"].extracted = MaxClaims
    /\ jobs["A"].claims[1].timedOut /\ jobs["A"].claims[1].status = "questionable"
    /\ jobs["A"].claims[2].status = "verified"

\* C16 as claimed: in discover mode the discover request is accepted before
\* the leaderboard's first status fetch is answered, so every status the
\* poller reads, and every complete list it takes, is of the discovery that
\* this start requested.
C16_DiscoverBeforeFirstStatus ==
    [][(board.pc = "poll" /\ board' # board) =>
          /\ disc.of = "this"
          /\ (board'.pc = "done" /\ BoardShowsTable(board')) =>
                 board'.influencers = Completed(disc) /\ disc.of = "this"]_vars

\* C17 as claimed: at most one call of loadInfluencerData is in effect for a
\* profile view; once loadInfluencerData has been started again, a step of an
\* earlier call changes none of influencer, researchStage, researchLogs,
\* error and loading; and the profile rendered under 'Ready' is the result
\* for the current id.
C17_OneLoopInEffect ==
    /\ [](Cardinality({l \in Loads : loops[l].pc \in {"post", "wait"}}) <= 1)
    /\ [][\A l \in Loads :
            (l < nloads /\ loops'[l] # loops[l]) =>
                /\ profile'.influencer = profile.influencer
                /\ profile'.researchStage = profile.researchStage
                /\ profile'.researchLogs = profile.researchLogs
                /\ profile'.error = profile.error
                /\ profile'.loading = profile.loading]_vars
    /\ [](Rendered(profile) => profile.influencer = profile.id)

\* C18 as claimed: for one Start Research action, the profile page's POST
\* carries the date range, the selected journals and the number of claims to
\* analyze of the form's POST.
C18_ProfilePostEqualsFormPost ==
    \A f \in posts, p \in posts :
        (f.src = "form" /\ p.src = "profile") =>
            /\ p.start = f.start /\ p.end = f.end
            /\ p.journals = f.journals
            /\ p.claims = f.claims

\* C19: when a call of loadInfluencerData ends, loading is false; when it
\* ends through a failure (the dates cannot be sent, the submission or a
\* status fetch is not ok, the server reports an error or status 'error', or
\* the attempts run out) researchStage is 'error' and error is a message, so
\* the progress view is shown with the error alert and without the spinner.
C19_FailedRunShowsError ==
    [][\A l \in Loads :
         Ends(l) =>
            /\ ~profile'.loading
            /\ loops'[l].cause # "complete" =>
                 /\ loops'[l].outcome = "error"
                 /\ profile'.researchStage = "error"
                 /\ profile'.error \notin {"null", ""}
                 /\ ~Rendered(profile')
                 /\ ShowsAlert(profile') /\ ~ShowsSpinner(profile')]_vars

\* After a first run that ended with the profile, a second run failed on its
\* status fetch and the alert is shown.
C19_Witness ==
    /\ loops[1].cause = "complete" /\ loops[2].cause = "http"
    /\ ~profile.loading /\ profile.researchStage = "error"
    /\ ShowsAlert(profile) /\ ~ShowsSpinner(profile)

\* C20 as claimed: the leaderboard's poller issues at most maxAttempts status
\* fetches (the fetch made with attempts = k is fetch k + 1); it gives up with
\* 'Research timed out. Please try again.'; and when it ends loading is
\* false and either the influencers were set from a complete status or
\* error is set.
C20_BoardPollerBounded ==
    [][(board.pc = "poll" /\ board' # board) =>
          /\ board.attempts + 1 <= maxAttempts
          /\ board'.pc = "done" =>
                /\ ~board'.loading
                /\ \/ board'.error # "null"
                   \/ /\ DiscoveryStatus(disc).status = "complete"
                      /\ board'.influencers = DiscoveryStatus(disc).influencers.list
          /\ (board'.pc = "done" /\ board.attempts = maxAttempts /\ board'.error # "null") =>
                board'.error \in {"Research timed out. Please try again.",
                                  "Failed to fetch research status"}]_vars

\* C21: in specific mode the form calls onStartResearch (App's POST is sent)
\* only in the step in which its own POST is answered and accepted, and it
\* navigates to the profile page only after that; when its POST fails it
\* stays on the form, sends nothing, leaves App alone, puts the failure
\* message in error and in the open snackbar, and isLoading is false again.
C21_NavigateOnlyAfterOk ==
    [][form.cfg.mode = "specific" =>
         /\ (\E r \in posts' \ posts : r.src = "app") =>
               /\ form.pc = "post"
               /\ RequestAccepted(FormRequest(form.cfg))
               /\ jobs'[form.cfg.influencerName] # NoJob
         /\ (page = "config" /\ page' = "profile") =>
               /\ jobs[form.cfg.influencerName] # NoJob
               /\ \E r \in posts : r.src = "app"
         /\ (form.pc = "post" /\ form'.pc = "idle") =>
               /\ page' = "config" /\ posts' = posts /\ app' = app
               /\ form'.error \notin {"null", ""}
               /\ form'.snackbar = [open |-> TRUE, message |-> form'.error]
               /\ ~form'.isLoading]_vars

\* The form's POST for "A" failed and nothing followed it; a second start,
\* for "A B", was accepted, App's POST was sent and the profile page is shown.
C21_Witness ==
    /\ page = "profile" /\ profile.id = "A B"
    /\ {r.subject : r \in {q \in posts : q.src = "form"}} = {"A", "A B"}
    /\ jobs["A"] = NoJob /\ jobs["A B"] # NoJob
    /\ \E r \in posts : r.src = "app"

\* The members of a list are health categories.
CategorySubset(cs) == \A i \in 1..Len(cs) : \E k \in 1..Len(HEALTH_CATEGORIES) : cs[i] = HEALTH_CATEGORIES[k]

\* C22: no discover request is sent with an empty category list, and the
\* selected categories, in the form and in every discover request, are
\* members of HEALTH_CATEGORIES; in discover mode with no category selected
\* the Start button is disabled, so no step starts the handler: nothing is
\* posted, App is not called and the form is not left.
C22_NoEmptyDiscovery ==
    /\ [](/\ CategorySubset(form.config.selectedCategories)
          /\ \A r \in posts : r.src = "discover" =>
                 Len(r.categories) > 0 /\ CategorySubset(r.categories)
          /\ (form.config.mode = "discover" /\ Len(form.config.selectedCategories) = 0) =>
                 StartDisabled(form.config))
    /\ [][(page = "config" /\ form.pc = "idle" /\ form.config.mode = "discover"
           /\ Len(form.config.selectedCategories) = 0) =>
              /\ posts' = posts /\ app' = app /\ page' = page
              /\ form'.pc = "idle" /\ form'.isLoading = form.isLoading
              /\ form'.error = form.error]_vars

\* A discover request with both categories was sent.
C22_Witness ==
    /\ page = "leaderboard"
    /\ \E r \in posts : r.src = "discover" /\ r.categories = <<"Fitness", "Nutrition">>

\* C23 as claimed: influencersCount is always an integer in 1..50, and after
\* an edit with an integer typed it is that integer when it is in 1..50, 1
\* when it is below and 50 when it is above.
C23_InfluencersCountClamped ==
    /\ form.config.influencersCount \in 1..50
    /\ (form.event.target = "influencersCount" /\ form.event.value.k = "int") =>
          LET v == form.event.value.v
          IN  form.config.influencersCount = IF v < 1 THEN 1 ELSE IF v > 50 THEN 50 ELSE v

\* C24: productsCount is always an integer in 0..10, and after an edit it is
\* 0 when the text typed is no number, the integer typed when it is in 0..10,
\* and the nearest bound otherwise.
C24_ProductsCountClamped ==
    /\ form.config.productsCount \in 0..10
    /\ form.event.target = "productsCount" =>
          LET x == form.event.value
          IN  form.config.productsCount =
                  IF x.k = "text" THEN 0
                  ELSE IF x.v < 0 THEN 0 ELSE IF x.v > 10 THEN 10 ELSE x.v

\* After other edits, 11 was typed in the products field and 10 is stored.
C24_Witness ==
    /\ form.event = [target |-> "productsCount", value |-> Typed(11)]
    /\ form.config.productsCount = 10
    /\ form.config.influencersCount = 50

\* The scores of an influencer's trust score history, oldest first.
Scores(inf) ==
    IF inf.trustScoreHistory.present
    THEN [i \in 1..Len(inf.trustScoreHistory.value) |-> inf.trustScoreHistory.value[i].score]
    ELSE <<>>

\* C25 as claimed: a row whose influencer has at least two history points
\* shows the upward icon exactly when the newest score is higher than the one
\* before it and the downward icon exactly when it is lower; with fewer than
\* two points it shows no icon.
C25_TrendOfLatestPoints ==
    rank.mounted =>
        \A i \in 1..Len(rank.rows) :
            LET h == Scores(rank.rows[i].influencer)
                n == Len(h)
            IN  IF n >= 2
                THEN /\ rank.rows[i].trend = "up" <=> h[n] > h[n - 1]
                     /\ rank.rows[i].trend = "down" <=> h[n] < h[n - 1]
                ELSE rank.rows[i].trend = "none"

\* The sum of f over the set S.
RECURSIVE SumOver(_, _)
SumOver(S, f) ==
    IF S = {} THEN 0
    ELSE LET x == CHOOSE y \in S : TRUE
         IN  f[x] + SumOver(S \ {x}, f)

\* C26: for a claim list with every status in {verified, questionable,
\* debunked}, the three counts of ClaimDistribution sum to the number of
\* claims; in TopicAnalysis every topic's count is the sum of its verified,
\* questionable and debunked counts, and the topics' counts sum to the
\* number of claims.
C26_CountsConserved ==
    (view.mounted /\ view.claims.present) =>
        LET n == Len(view.claims.value)
            t == view.topicStats
        IN  /\ view.distributionData[1] + view.distributionData[2] + view.distributionData[3] = n
            /\ \A k \in DOMAIN t : t[k].count = t[k].verified + t[k].questionable + t[k].debunked
            /\ SumOver(DOMAIN t, [k \in DOMAIN t |-> t[k].count]) = n

\* Three claims, two of one status and two of one topic, are charted while
\* the table is filtered to one of them.
C26_Witness ==
    /\ view.mounted /\ view.claims.present /\ Len(view.claims.value) = 3
    /\ view.distributionData = <<2, 0, 1>>
    /\ DOMAIN view.topicStats = {"Nutrition", "Fitness"}
    /\ view.topicStats["Nutrition"].count = 2
    /\ view.claimFilter = "debunked" /\ Len(view.rows) = 1

\* s is t with some elements left out, the others in their order.
RECURSIVE IsSubSeq(_, _)
IsSubSeq(s, t) ==
    IF s = <<>> THEN TRUE
    ELSE IF t = <<>> THEN FALSE
    ELSE IF s[1] = t[1] THEN IsSubSeq(SubSeq(s, 2, Len(s)), SubSeq(t, 2, Len(t)))
    ELSE IsSubSeq(s, SubSeq(t, 2, Len(t)))

\* C27: the claims table shows exactly the claims that match the three
\* filters at once, each as often as the list has it and in the list's
\* order; with the default filters it shows every claim.
C27_ClaimsMatchAllFilters ==
    (view.mounted /\ view.claims.present) =>
        /\ \A c \in ClaimPool :
               Count(c, view.rows) =
                   IF /\ Includes(toLowerCase(c.text), toLowerCase(view.searchQuery))
                      /\ view.claimFilter \in {"all", c.status}
                      /\ view.selectedCategory \in {"all", c.category}
                   THEN Count(c, view.claims.value) ELSE 0
        /\ IsSubSeq(view.rows, view.claims.value)
        /\ (view.searchQuery = <<>> /\ view.claimFilter = "all" /\ view.selectedCategory = "all") =>
               view.rows = view.claims.value

\* All three filters are set and leave the first and the last of three claims.
C27_Witness ==
    /\ view.mounted /\ view.claims.present /\ Len(view.claims.value) = 3
    /\ view.searchQuery = <<"a">> /\ view.claimFilter = "verified"
    /\ view.selectedCategory = "Nutrition"
    /\ view.rows = <<view.claims.value[1], view.claims.value[3]>>
    /\ view.claims.value[2].status = "verified" /\ view.claims.value[2].category = "Fitness"

====
